---- MODULE Spec2Model ----
(***************************************************************************)
(* Calendar tool set of the Cal.com chat agent (calendar_functions.py) and *)
(* the Cal.com client it calls (calcom_client.py).                         *)
(*                                                                         *)
(* Strings the code searches in (identifiers, titles, UIDs, strftime       *)
(* output) are sequences of one-character strings.  ISO timestamps are     *)
(* records [ok, t, sec, z]: ok = FALSE is the empty string, which          *)
(* datetime.fromisoformat rejects; t is the minute the string's own        *)
(* date/hour/minute fields denote, counted from 2025-10-31T00:00 (day 0 of *)
(* the window); sec is its seconds field; z tells whether the string ends  *)
(* in "Z".  The local zone is America/Los_Angeles, which leaves daylight   *)
(* saving on day 2 of the window (2025-11-02) and enters it again on day   *)
(* 128 (2026-03-08).                                                       *)
(*                                                                         *)
(* Three specifications share the variables: Spec runs the calendar tools, *)
(* SpecTime the two time conversions on their own, SpecSessions the        *)
(* session manager of core/agent.py.                                       *)
(***************************************************************************)
EXTENDS Integers, Sequences, FiniteSets, TLC

VARIABLES pc, op, args, bookings, slots, resolved, today_la, calls, response,
          result, conv, sessions, created, ret, obtained, now,
          settings, app, chat,
          chat_history, is_processing, agent_ready, error_message,
          workers, available

\* One tool invocation
toolVars ==
    <<pc, op, args, bookings, slots, resolved, today_la, calls, response, result>>

\* One run of the time conversions
convVars == <<conv>>

\* SessionManager.sessions, the LiveXChatSession objects built so far, the
\* last call with its return value, the ids handed out and not deleted,
\* and the clock datetime.now() reads, in hours
sessionVars == <<sessions, created, ret, obtained, now>>

\* The global settings object of config/settings.py
configVars == <<settings>>

\* The REST application: its lifecycle and the outcome of the last POST /chat
restVars == <<app, chat>>

\* st.session_state of one browser session of the Streamlit interface
uiVars == <<chat_history, is_processing, agent_ready, error_message>>

\* Two book_meeting invocations running at once, and the slots the
\* calendar service has on offer
concVars == <<workers, available>>

vars == <<toolVars, convVars, sessionVars, configVars, restVars, uiVars, concVars>>

---------------------------------------------------------------------------
(* Bounds of the model *)

MaxBookings == 2
MaxSlots == 6
MaxSlotsReschedule == 2
MaxSlotsListed == 3
ConvSpan == 12
MaxCreated == 4
MaxNow == 1
MaxInactiveHours == 1
MaxHistory == 6

---------------------------------------------------------------------------
(* Python string operations *)

Digits == {"0", "1", "2", "3", "4", "5", "6", "7", "8", "9"}

\* str.isdigit(): non-empty and every character a digit
IsDigit(s) == Len(s) > 0 /\ \A i \in 1..Len(s) : s[i] \in Digits

DigitVal(c) ==
    CASE c = "0" -> 0 [] c = "1" -> 1 [] c = "2" -> 2 [] c = "3" -> 3
      [] c = "4" -> 4 [] c = "5" -> 5 [] c = "6" -> 6 [] c = "7" -> 7
      [] c = "8" -> 8 [] OTHER -> 9

DigitChar(n) ==
    CASE n = 0 -> "0" [] n = 1 -> "1" [] n = 2 -> "2" [] n = 3 -> "3"
      [] n = 4 -> "4" [] n = 5 -> "5" [] n = 6 -> "6" [] n = 7 -> "7"
      [] n = 8 -> "8" [] OTHER -> "9"

RECURSIVE ToInt(_)
\* int(s) of an all-digits string
ToInt(s) ==
    IF Len(s) = 0 THEN 0
    ELSE 10 * ToInt(SubSeq(s, 1, Len(s) - 1)) + DigitVal(s[Len(s)])

\* str.lower() on the letters the model's strings use
LowerChar(c) ==
    CASE c = "S" -> "s" [] c = "T" -> "t" [] c = "R" -> "r"
      [] c = "Y" -> "y" [] c = "N" -> "n" [] c = "C" -> "c"
      [] c = "A" -> "a" [] c = "P" -> "p" [] c = "M" -> "m"
      [] OTHER -> c

Lower(s) == [i \in 1..Len(s) |-> LowerChar(s[i])]

\* Python's "s in t" on strings
Contains(t, s) ==
    \E i \in 1..(Len(t) - Len(s) + 1) :
        \A k \in 1..Len(s) : t[i + k - 1] = s[k]

---------------------------------------------------------------------------
(* Time conversion *)

MinutesPerDay == 1440
PdtOffset == 420
PstOffset == 480
\* 2025-11-02 (day 2): 02:00 PDT = 09:00 UTC is followed by 01:00 PST
DstEndDay == 2
DstEndUtc == DstEndDay * MinutesPerDay + 9 * 60
\* pytz localize(is_dst=False) reads the repeated hour 01:00-01:59 as PST
DstEndLocal == DstEndDay * MinutesPerDay + 60
\* 2026-03-08 (day 128): 02:00 PST = 10:00 UTC is followed by 03:00 PDT
DstStartDay == 128
DstStartUtc == DstStartDay * MinutesPerDay + 10 * 60
\* pytz localize(is_dst=False) reads the skipped hour 02:00-02:59 as PST
DstStartLocal == DstStartDay * MinutesPerDay + 3 * 60

DayOf(t) == t \div MinutesPerDay
HourOf(t) == (t % MinutesPerDay) \div 60
MinuteOf(t) == t % 60

\* strftime("%Y-%m-%dT%H:%M") of a datetime whose fields denote minute t,
\* and equally the first 16 characters of an ISO timestamp
MinutePrefix(t) == <<DayOf(t), HourOf(t), MinuteOf(t)>>

\* "YYYY-MM-DDTHH:MM:SSZ"
Iso(t, sec) == [ok |-> TRUE, t |-> t, sec |-> sec, z |-> TRUE]
\* "YYYY-MM-DDTHH:MM:SS", the form without the trailing "Z"
IsoNaive(t, sec) == [ok |-> TRUE, t |-> t, sec |-> sec, z |-> FALSE]
\* "", what the client maps a booking without a start to
BadIso == [ok |-> FALSE, t |-> 0, sec |-> 0, z |-> FALSE]

\* slot.time.startswith(prefix): an unparseable string starts with no
\* date-time prefix
StartsWith(iso, prefix) == iso.ok /\ MinutePrefix(iso.t) = prefix

\* convert_utc_to_la: the local wall-clock minute of a UTC timestamp;
\* raises on a string fromisoformat rejects
UtcToLaRaises(iso) == ~iso.ok

convert_utc_to_la(iso) ==
    IF iso.t < DstEndUtc THEN iso.t - PdtOffset
    ELSE IF iso.t < DstStartUtc THEN iso.t - PstOffset
    ELSE iso.t - PdtOffset

\* A date/time argument pair: ok = FALSE is a pair strptime rejects
Local(t) == [ok |-> TRUE, t |-> t]
BadLocal == [ok |-> FALSE, t |-> 0]

LaToUtcRaises(loc) == ~loc.ok

convert_la_to_utc_pdt(loc) == Iso(loc.t + PdtOffset, 0)

\* convert_la_to_utc: localize in America/Los_Angeles, convert to UTC,
\* format "%Y-%m-%dT%H:%M:%SZ".  localize() is called with its default
\* is_dst=False and so never raises: a repeated or skipped local time gets
\* the standard-time offset
convert_la_to_utc(loc) ==
    IF loc.t < DstEndLocal THEN Iso(loc.t + PdtOffset, 0)
    ELSE IF loc.t < DstStartLocal THEN Iso(loc.t + PstOffset, 0)
    ELSE Iso(loc.t + PdtOffset, 0)

\* strftime("%Y-%m-%d") of a local datetime
DateStr(t) ==
    CASE DayOf(t) = 0 -> <<"2", "0", "2", "5", "-", "1", "0", "-", "3", "1">>
      [] DayOf(t) = 1 -> <<"2", "0", "2", "5", "-", "1", "1", "-", "0", "1">>
      [] DayOf(t) = 2 -> <<"2", "0", "2", "5", "-", "1", "1", "-", "0", "2">>
      [] DayOf(t) = 3 -> <<"2", "0", "2", "5", "-", "1", "1", "-", "0", "3">>
      [] DayOf(t) = 127 -> <<"2", "0", "2", "6", "-", "0", "3", "-", "0", "7">>
      [] DayOf(t) = 128 -> <<"2", "0", "2", "6", "-", "0", "3", "-", "0", "8">>
      [] OTHER -> <<"2", "0", "2", "6", "-", "0", "3", "-", "0", "9">>

Hour12(t) == IF HourOf(t) % 12 = 0 THEN 12 ELSE HourOf(t) % 12

Meridiem(t) == IF HourOf(t) < 12 THEN <<"a", "m">> ELSE <<"p", "m">>

\* strftime('%I%p').lower(): %I is the zero-padded 12-hour clock hour
TimeToken(t) ==
    <<DigitChar(Hour12(t) \div 10), DigitChar(Hour12(t) % 10)>> \o Meridiem(t)

\* strftime("%I:%M %p")
ClockStr(t) == <<Hour12(t), MinuteOf(t), IF HourOf(t) < 12 THEN "AM" ELSE "PM">>

---------------------------------------------------------------------------
(* Records of the Cal.com client *)

\* Optional[str]: None, or a string (possibly empty)
None == [some |-> FALSE, v |-> <<>>]
Some(s) == [some |-> TRUE, v |-> s]

\* Python truthiness of an Optional[str]
Truthy(o) == o.some /\ Len(o.v) > 0

Booking(id, uid, title, startTime, endTime) ==
    [id |-> id, uid |-> uid, title |-> title,
     startTime |-> startTime, endTime |-> endTime]

\* The fixed event type both tools pass
EventTypeId == 3161359

\* slots[:5] of the "not available" answer
ShownSlots == 5

Call(api, arg) == [api |-> api, arg |-> arg]

MakeRequestTwice(log, api, arg) == Append(Append(log, Call(api, arg)), Call(api, arg))

\* CalcomClient._make_request: one HTTP request per client call, appended to
\* the log of the invocation; a failed request is not sent again
MakeRequest(log, api, arg) == Append(log, Call(api, arg))

Result(kind, body) == [kind |-> kind, body |-> body]

Reraised == Result("raised", <<>>)

\* What the outermost "except Exception as e: return f"Error ...: {e}""
\* of every tool makes of an exception raised anywhere in its body
ErrorText == Result("error", <<>>)

Min(a, b) == IF a < b THEN a ELSE b

\* All sequences over S of length at most n
SeqsUpTo(S, n) == UNION {[1..k -> S] : k \in 0..n}

---------------------------------------------------------------------------
(* Inputs *)

At(day, hour, minute) == day * MinutesPerDay + hour * 60 + minute

\* Requested local date/time pairs: 2025-11-01 14:00 and 14:01, and a
\* malformed pair
Requests == {Local(At(1, 14, 0)), Local(At(1, 14, 1)), BadLocal}

\* Slot start strings the slots API may return: 14:00Z (the requested
\* local fields read as UTC), 21:00:30Z (the UTC instant of 14:00 PDT),
\* and a string that is no ISO timestamp
SlotPool == {Iso(At(1, 14, 0), 0), Iso(At(1, 21, 0), 30), BadIso}

NameAda == <<"A", "d", "a">>
NameBob == <<"B", "o", "b">>
MailAda == <<"a", "@", "x">>
MailBob == <<"b", "@", "y">>
Attendees == {[name |-> NameAda, email |-> MailAda],
              [name |-> NameBob, email |-> MailBob]}

TitleDemo == <<"D", "e", "m", "o">>
TitleMeeting == <<"M", "e", "e", "t", "i", "n", "g">>
DescDemo == <<"d", "e", "m", "o">>
Texts == {[title |-> TitleDemo, description |-> DescDemo],
          [title |-> TitleMeeting, description |-> <<>>]}

TitleStandup == <<"S", "t", "a", "n", "d", "u", "p">>
Title1pmSync == <<"1", "p", "m", " ", "s", "y", "n", "c">>
TitleToday == <<"T", "o", "d", "a", "y">>
TitleReview == <<"R", "e", "v", "i", "e", "w">>
UidA == <<"u", "a">>
\* "up" is also part of the title "Standup"
UidB == <<"u", "p">>
Uid77 == <<"7", "7">>

\* Bookings the service may list.  Starts in local time: Standup
\* 2025-11-01 15:00, 1pm sync 2025-11-01 13:00, Today 2025-11-02 09:00
\* (no UID), Review with start and end strings that do not parse.
BookingPool ==
    {Booking(1, Some(UidA), TitleStandup, Iso(At(1, 22, 0), 0), Iso(At(1, 22, 30), 0)),
     Booking(2, Some(UidB), Title1pmSync, Iso(At(1, 20, 0), 0), Iso(At(1, 20, 30), 0)),
     Booking(3, None, TitleToday, Iso(At(2, 17, 0), 0), Iso(At(2, 17, 30), 0)),
     Booking(4, Some(Uid77), TitleReview, BadIso, BadIso)}

WordToday == <<"t", "o", "d", "a", "y">>
WordTomorrow == <<"t", "o", "m", "o", "r", "r", "o", "w">>

\* Identifiers: numeric ids, a UID, an all-digits UID, title text in
\* another case, the padded and unpadded hour tokens, a date, today,
\* tomorrow, the empty string and text that is in no booking
Idents ==
    {<<"1">>, <<"3">>, <<"4">>, <<"9">>, Uid77, UidB,
     <<"S", "Y", "N", "C">>, <<"0", "3", "p", "m">>, <<"3", "p", "m">>,
     <<"2", "0", "2", "5", "-", "1", "1", "-", "0", "1">>,
     WordToday, WordTomorrow, <<>>, <<"z", "z", "z">>}

ReasonDefault == <<"U", "s", "e", "r">>
Reasons == {ReasonDefault, <<>>}

\* Local dates datetime.now(la_tz).date() may return
TodayChoices == 0..2

\* end_date = "" of get_available_slots
NoDate == 0 - 1

NoArgs ==
    [dt |-> BadLocal, name |-> <<>>, email |-> <<>>, title |-> <<>>,
     description |-> <<>>, ident |-> <<>>, reason |-> <<>>,
     date |-> NoDate, end_date |-> NoDate]

---------------------------------------------------------------------------
(* Cal.com client: what each method returns for a response *)

\* A response: ok = FALSE is a transport or decoding failure
\* (CalcomAPIError out of _make_request), else data is the "data" member
Response(data) == [ok |-> TRUE, data |-> data]
Failure == [ok |-> FALSE, data |-> <<>>]

\* CalcomClient.get_available_slots: the slots of the response; any
\* exception is swallowed and [] returned
ClientGetAvailableSlots(resp) == IF resp.ok THEN resp.data ELSE <<>>

\* CalcomClient.create_booking raises CalcomAPIError on failure
ClientCreateBookingRaises(resp) == ~resp.ok

\* CalcomClient.create_booking: the mapped booking of the response, or the
\* fallback Booking built from the request when "data" is empty
ClientCreateBooking(resp, request) ==
    IF resp.data # <<>> THEN resp.data[1]
    ELSE Booking(0, None,
                 IF Truthy(request.title) THEN request.title.v ELSE TitleMeeting,
                 request.start, request.start)

\* CalcomClient.get_bookings: the mapped bookings of the response; any
\* exception is swallowed and [] returned
ClientGetBookings(resp) == IF resp.ok THEN resp.data ELSE <<>>

\* A cancel response body: "status" and "success" members, each possibly
\* absent
CancelBody(status, success) == [status |-> status, success |-> success]

\* CalcomClient.cancel_booking:
\* response.get("status") == "success" or response.get("success", True);
\* False on any exception
ClientCancelBooking(resp) ==
    resp.ok /\ (resp.data.status = "success" \/ resp.data.success # "false")

ClientRescheduleFallback(resp) ==
    IF resp.ok /\ resp.data # <<>> THEN resp.data
    ELSE <<Booking(0, None, TitleMeeting, BadIso, BadIso)>>

\* CalcomClient.reschedule_booking: the mapped booking, or None (<<>>) on
\* empty "data" or any exception
ClientRescheduleBooking(resp) == IF resp.ok THEN resp.data ELSE <<>>


---------------------------------------------------------------------------
(* Availability check shared by book_meeting and reschedule_booking *)

\* requested_time_matches: the slots whose string starts with the
\* requested naive date/time formatted "%Y-%m-%dT%H:%M"
RequestedTimeMatches(available_slots, dt) ==
    SelectSeq(available_slots, LAMBDA s : StartsWith(s, MinutePrefix(dt.t)))

ParsedSlot(s) == ~UtcToLaRaises(s)

SlotClock(s) == ClockStr(convert_utc_to_la(s))

\* available_times: the first five slots, in list order, each converted to
\* local "%I:%M %p"; a slot that fails to convert is skipped
AvailableTimes(available_slots) ==
    LET shown == SelectSeq(SubSeq(available_slots, 1,
                                  Min(ShownSlots, Len(available_slots))),
                           ParsedSlot)
    IN  [i \in 1..Len(shown) |-> SlotClock(shown[i])]

\* The answer when requested_time_matches is empty
NoMatchResult(available_slots) ==
    IF available_slots # <<>> /\ AvailableTimes(available_slots) # <<>>
    THEN Result("unavailable", AvailableTimes(available_slots))
    ELSE Result("no_slots", <<>>)

\* BookingRequest built by book_meeting: title and description are not set
BookingRequest(start, name, email) ==
    [eventTypeId |-> EventTypeId, start |-> start,
     attendee |-> [name |-> name, email |-> email],
     title |-> None, description |-> None]

---------------------------------------------------------------------------
(* Booking-identifier resolution *)

\* next((b for b in bookings if ...), None) over the set of indices that
\* pass the test: the first of them, 0 for None
FirstIndex(passing) ==
    IF passing = {} THEN 0
    ELSE CHOOSE i \in passing : \A j \in passing : i <= j

IdMatches(list, ident) == {i \in 1..Len(list) : list[i].id = ToInt(ident)}

UidMatches(list, ident) ==
    {i \in 1..Len(list) : list[i].uid.some /\ list[i].uid.v = ident}

ByUidOnly(list, ident) == FirstIndex(UidMatches(list, ident))

ByIdOnly(list, ident) ==
    IF IsDigit(ident) THEN FirstIndex(IdMatches(list, ident)) ELSE 0

\* "Try to find booking by ID or UID first": an all-digits identifier is
\* compared with the ids only, any other identifier with the UIDs only
ByIdOrUid(list, ident) ==
    IF IsDigit(ident)
    THEN FirstIndex(IdMatches(list, ident))
    ELSE FirstIndex(UidMatches(list, ident))

\* identifier_lower in booking.title.lower()
TitleMatch(b, ident) == Contains(Lower(b.title), Lower(ident))

\* The time checks of cancel_booking's loop body; a start that fails to
\* convert raises inside the try and the booking is skipped
TimeMatch(b, ident, today) ==
    /\ ~UtcToLaRaises(b.startTime)
    /\ LET start_time_la == convert_utc_to_la(b.startTime)
           identifier_lower == Lower(ident)
       IN  \/ Contains(identifier_lower, TimeToken(start_time_la))
           \/ Contains(identifier_lower, DateStr(start_time_la))
           \/ /\ Contains(identifier_lower, WordToday)
              /\ DayOf(start_time_la) = today
           \/ /\ Contains(identifier_lower, WordTomorrow)
              /\ DayOf(start_time_la) = today + 1

ScanTitlesFirst(list, i, ident, today) ==
    LET byTitle == FirstIndex({k \in i..Len(list) : TitleMatch(list[k], ident)})
    IN  IF byTitle # 0 THEN byTitle
        ELSE FirstIndex({k \in i..Len(list) : TimeMatch(list[k], ident, today)})

ScanTimesFirst(list, i, ident, today) ==
    LET byTime == FirstIndex({k \in i..Len(list) : TimeMatch(list[k], ident, today)})
    IN  IF byTime # 0 THEN byTime
        ELSE FirstIndex({k \in i..Len(list) : TitleMatch(list[k], ident)})

RECURSIVE ScanCancel(_, _, _, _)
\* for booking in bookings: title check, then time checks, break on the
\* first booking that passes one
ScanCancel(list, i, ident, today) ==
    IF i > Len(list) THEN 0
    ELSE IF TitleMatch(list[i], ident) THEN i
    ELSE IF TimeMatch(list[i], ident, today) THEN i
    ELSE ScanCancel(list, i + 1, ident, today)

\* booking_to_cancel of cancel_booking, as an index into bookings
CancelResolve(list, ident, today) ==
    IF ByIdOrUid(list, ident) # 0 THEN ByIdOrUid(list, ident)
    ELSE ScanCancel(list, 1, ident, today)

\* booking_to_reschedule of reschedule_booking: id or UID, then titles only
RescheduleResolve(list, ident) ==
    IF ByIdOrUid(list, ident) # 0 THEN ByIdOrUid(list, ident)
    ELSE FirstIndex({i \in 1..Len(list) : TitleMatch(list[i], ident)})

HasUidUnchecked(b) == TRUE

\* "if not booking.uid": the resolved booking has a non-empty UID
HasUid(b) == Truthy(b.uid)

NotAvailable == <<"N", "/", "A">>

\* b.uid or 'N/A'
UidOrNA(b) == IF Truthy(b.uid) THEN b.uid.v ELSE NotAvailable

CancelListEntry(b) ==
    [title |-> b.title, id |-> b.id, uid |-> UidOrNA(b),
     start |-> convert_utc_to_la(b.startTime)]

\* cancel_booking's "Could not find" answer: the list comprehension
\* converts every start outside any try, so one bad start raises and the
\* outer except answers "Error canceling booking"
CancelNotFound(list) ==
    IF \E i \in 1..Len(list) : UtcToLaRaises(list[i].startTime)
    THEN ErrorText
    ELSE Result("not_found", [i \in 1..Len(list) |-> CancelListEntry(list[i])])

\* original_start_la and duration of reschedule_booking: either string
\* failing to parse raises, and so does subtracting a start with "Z"
\* (offset-aware) and an end without (naive), or the reverse
DurationRaises(b) ==
    \/ UtcToLaRaises(b.startTime)
    \/ UtcToLaRaises(b.endTime)
    \/ b.startTime.z # b.endTime.z

RescheduleListEntry(b) == [title |-> b.title, id |-> b.id, uid |-> UidOrNA(b)]

\* reschedule_booking's "Could not find" answer lists title, id and UID
RescheduleNotFound(list) ==
    Result("not_found", [i \in 1..Len(list) |-> RescheduleListEntry(list[i])])

---------------------------------------------------------------------------
(* list_bookings and get_available_slots *)

\* Python's < on two start strings.  The first 19 characters are
\* zero-padded and fixed-width, so they order as the date/time fields do;
\* a string that is a proper prefix of another (no "Z" against "Z", the
\* empty string against any other) is the smaller
StrLess(a, b) ==
    IF ~a.ok THEN b.ok
    ELSE /\ b.ok
         /\ \/ a.t < b.t
            \/ a.t = b.t /\ a.sec < b.sec
            \/ a.t = b.t /\ a.sec = b.sec /\ ~a.z /\ b.z

RECURSIVE InsertByStart(_, _)
\* One step of the stable sort: b goes behind every booking whose start
\* string is not greater than its own
InsertByStart(sorted, b) ==
    IF sorted = <<>> THEN <<b>>
    ELSE IF StrLess(b.startTime, sorted[Len(sorted)].startTime)
    THEN Append(InsertByStart(SubSeq(sorted, 1, Len(sorted) - 1), b),
                sorted[Len(sorted)])
    ELSE Append(sorted, b)

RECURSIVE SortByStart(_)
\* bookings.sort(key=lambda b: b.startTime)
SortByStart(list) ==
    IF list = <<>> THEN <<>>
    ELSE InsertByStart(SortByStart(SubSeq(list, 1, Len(list) - 1)),
                       list[Len(list)])

ListEntryPlaceholder(b) ==
    [title |-> b.title, id |-> b.id, uid |-> UidOrNA(b), parsed |-> FALSE]

\* One booking of the listing: local start and end, or the "Error parsing
\* time details" line when either fails to convert
ListEntry(b) ==
    IF UtcToLaRaises(b.startTime) \/ UtcToLaRaises(b.endTime)
    THEN [title |-> b.title, id |-> b.id, uid |-> UidOrNA(b), parsed |-> FALSE]
    ELSE [title |-> b.title, id |-> b.id, uid |-> UidOrNA(b), parsed |-> TRUE,
          start |-> convert_utc_to_la(b.startTime),
          end |-> convert_utc_to_la(b.endTime)]

\* Python's < on two "%I:%M %p" strings
ClockLess(a, b) ==
    \/ a[1] < b[1]
    \/ a[1] = b[1] /\ a[2] < b[2]
    \/ a[1] = b[1] /\ a[2] = b[2] /\ a[3] = "AM" /\ b[3] = "PM"

RECURSIVE InsertClock(_, _)
InsertClock(sorted, c) ==
    IF sorted = <<>> THEN <<c>>
    ELSE IF ClockLess(c, sorted[Len(sorted)])
    THEN Append(InsertClock(SubSeq(sorted, 1, Len(sorted) - 1), c),
                sorted[Len(sorted)])
    ELSE Append(sorted, c)

RECURSIVE SortClock(_)
\* sorted(slots_by_date[slot_date]): the formatted times, as strings
SortClock(times) ==
    IF times = <<>> THEN <<>>
    ELSE InsertClock(SortClock(SubSeq(times, 1, Len(times) - 1)),
                     times[Len(times)])

RECURSIVE SortDays(_)
\* sorted(slots_by_date.keys()): "%Y-%m-%d" strings order as their days do
SortDays(S) ==
    IF S = {} THEN <<>>
    ELSE LET d == CHOOSE x \in S : \A y \in S : x <= y
         IN  <<d>> \o SortDays(S \ {d})

\* slots_by_date: each slot that converts goes under its local date, in
\* list order; a slot that fails to convert is skipped
SlotsOfDate(available_slots, d) ==
    LET there == SelectSeq(available_slots,
                     LAMBDA s : ParsedSlot(s) /\ DayOf(convert_utc_to_la(s)) = d)
    IN  [i \in 1..Len(there) |-> SlotClock(there[i])]

SlotDates(available_slots) ==
    {DayOf(convert_utc_to_la(available_slots[i])) :
        i \in {k \in 1..Len(available_slots) : ParsedSlot(available_slots[k])}}

\* The date groups of the answer, dates sorted, times sorted inside each
SlotGroups(available_slots) ==
    LET days == SortDays(SlotDates(available_slots))
    IN  [i \in 1..Len(days) |->
            [date |-> days[i],
             times |-> SortClock(SlotsOfDate(available_slots, days[i]))]]

---------------------------------------------------------------------------
(* State machine: one tool invocation at a time, one step per external call *)

ToolInit ==
    /\ pc = "idle"
    /\ op = "none"
    /\ args = NoArgs
    /\ bookings = <<>>
    /\ slots = <<>>
    /\ resolved = 0
    /\ today_la = 0
    /\ calls = <<>>
    /\ response = Failure
    /\ result = Result("none", <<>>)

\* No conversion under way
NoConv ==
    [phase |-> "idle", utc |-> BadIso, local |-> BadLocal, back |-> BadIso,
     raised |-> FALSE]

ConvInit == conv = NoConv

\* No call made yet
NoRet == [op |-> "none", id |-> "", value |-> "none", before |-> <<>>]

\* SessionManager.__init__: self.sessions = {}
SessionInit ==
    /\ sessions = <<>>
    /\ created = 0
    /\ ret = NoRet
    /\ obtained = {}
    /\ now = 0

\* Before config/settings.py has been imported
Unloaded ==
    [loaded |-> FALSE, openai_api_key |-> FALSE, calcom_api_key |-> FALSE,
     user_email |-> FALSE, debug |-> FALSE]

ConfigInit == settings = Unloaded

\* No POST /chat handled yet
NoChat == [status |-> "none", session_id |-> "", tool |-> FALSE]

\* The FastAPI application before uvicorn runs its startup event
RestInit ==
    /\ app = "stopped"
    /\ chat = NoChat

\* SimpleChatInterface.initialize_session_state on the first script run
UiInit ==
    /\ chat_history = <<>>
    /\ is_processing = FALSE
    /\ agent_ready = FALSE
    /\ error_message = FALSE

\* The two invocations
Workers == {1, 2}

\* An invocation that has not started
IdleWorker == [pc |-> "idle", dt |-> BadLocal, start |-> BadIso, kind |-> "none"]

\* The slots the service offers on 2025-11-01: 14:00Z, 14:01Z and 21:00Z
OfferedSlots == {Iso(At(1, 14, 0), 0), Iso(At(1, 14, 1), 0), Iso(At(1, 21, 0), 0)}

ConcInit ==
    /\ workers = [w \in Workers |-> IdleWorker]
    /\ available = OfferedSlots

Init == ToolInit /\ ConvInit /\ SessionInit /\ ConfigInit /\ RestInit /\ UiInit
        /\ ConcInit

Finish(r) ==
    /\ pc' = "done"
    /\ result' = r

\* book_meeting up to the get_available_slots call
BookMeeting ==
    /\ pc = "idle"
    /\ \E dt \in Requests, att \in Attendees, txt \in Texts :
        /\ op' = "book"
        /\ args' = [NoArgs EXCEPT !.dt = dt, !.name = att.name,
                                  !.email = att.email, !.title = txt.title,
                                  !.description = txt.description]
        /\ IF LaToUtcRaises(dt)
           THEN /\ Finish(ErrorText)
                /\ calls' = calls
           ELSE /\ pc' = "book_slots"
                /\ calls' = MakeRequest(calls,
                       "listAvailableSlots",
                            [eventTypeId |-> EventTypeId,
                             start_date |-> DayOf(dt.t), end_date |-> DayOf(dt.t)])
                /\ result' = result
    /\ UNCHANGED <<bookings, slots, resolved, today_la, response>>
    /\ UNCHANGED <<convVars, sessionVars, configVars, restVars, uiVars, concVars>>

\* book_meeting from the slots answer to the create_booking call
BookSlotsReturn ==
    /\ pc = "book_slots"
    /\ \E resp \in {Failure} \cup {Response(l) : l \in SeqsUpTo(SlotPool, MaxSlots)} :
        LET available_slots == ClientGetAvailableSlots(resp) IN
        /\ slots' = available_slots
        /\ response' = resp
        /\ IF RequestedTimeMatches(available_slots, args.dt) = <<>>
           THEN /\ Finish(NoMatchResult(available_slots))
                /\ calls' = calls
           ELSE /\ pc' = "book_create"
                /\ calls' = MakeRequest(calls,
                       "createBooking",
                            BookingRequest(convert_la_to_utc(args.dt),
                                           args.name, args.email))
                /\ result' = result
    /\ UNCHANGED <<op, args, bookings, resolved, today_la>>
    /\ UNCHANGED <<convVars, sessionVars, configVars, restVars, uiVars, concVars>>

\* Bookings the service may answer a create with
CreatedPool == {Booking(10, Some(<<"u", "n">>), TitleDemo, Iso(At(1, 21, 0), 0),
                        Iso(At(1, 21, 30), 0))}

\* book_meeting from the create_booking answer to its return
BookCreateReturn ==
    /\ pc = "book_create"
    /\ \E resp \in {Failure, Response(<<>>)} \cup {Response(<<b>>) : b \in CreatedPool} :
        /\ response' = resp
        /\ IF ClientCreateBookingRaises(resp)
           THEN Finish(ErrorText)
           ELSE LET booking == ClientCreateBooking(resp, calls[Len(calls)].arg) IN
                Finish(Result("booked",
                              [title |-> booking.title, when |-> args.dt.t,
                               name |-> args.name, email |-> args.email,
                               id |-> booking.id, uid |-> booking.uid]))
    /\ UNCHANGED <<op, args, bookings, slots, resolved, today_la, calls>>
    /\ UNCHANGED <<convVars, sessionVars, configVars, restVars, uiVars, concVars>>

BookingResponses ==
    {Failure} \cup {Response(l) : l \in SeqsUpTo(BookingPool, MaxBookings)}

\* cancel_booking up to the get_bookings call
CancelBooking ==
    /\ pc = "idle"
    /\ \E ident \in Idents, reason \in Reasons :
        /\ op' = "cancel"
        /\ args' = [NoArgs EXCEPT !.ident = ident, !.reason = reason]
    /\ pc' = "cancel_list"
    /\ calls' = MakeRequest(calls, "listBookings", [take |-> 100])
    /\ UNCHANGED <<bookings, slots, resolved, today_la, response, result>>
    /\ UNCHANGED <<convVars, sessionVars, configVars, restVars, uiVars, concVars>>

\* cancel_booking from the bookings answer to the cancel call
CancelListReturn ==
    /\ pc = "cancel_list"
    /\ \E resp \in BookingResponses, today \in TodayChoices :
        LET list == ClientGetBookings(resp)
            k == CancelResolve(list, args.ident, today)
        IN
        /\ bookings' = list
        /\ response' = resp
        /\ today_la' = today
        /\ IF list = <<>>
           THEN /\ Finish(Result("no_bookings", <<>>))
                /\ resolved' = 0
                /\ calls' = calls
           ELSE IF k = 0
           THEN /\ Finish(CancelNotFound(list))
                /\ resolved' = 0
                /\ calls' = calls
           ELSE IF ~HasUid(list[k])
           THEN /\ Finish(Result("no_uid", list[k].id))
                /\ resolved' = k
                /\ calls' = calls
           ELSE /\ pc' = "cancel_call"
                /\ resolved' = k
                /\ calls' = MakeRequest(calls,
                       "cancelBooking",
                            [uid |-> list[k].uid.v, reason |-> args.reason])
                /\ result' = result
    /\ UNCHANGED <<op, args, slots>>
    /\ UNCHANGED <<convVars, sessionVars, configVars, restVars, uiVars, concVars>>

CancelResponses ==
    {Failure} \cup
    {Response(CancelBody(st, su)) :
        st \in {"success", "error", "absent"}, su \in {"true", "false", "absent"}}

\* cancel_booking from the cancel answer to its return
CancelCallReturn ==
    /\ pc = "cancel_call"
    /\ \E resp \in CancelResponses :
        LET b == bookings[resolved] IN
        /\ response' = resp
        /\ IF ClientCancelBooking(resp)
           THEN IF UtcToLaRaises(b.startTime)
                THEN Finish(ErrorText)
                ELSE Finish(Result("canceled",
                        [title |-> b.title, start |-> convert_utc_to_la(b.startTime),
                         id |-> b.id, uid |-> b.uid.v, reason |-> args.reason]))
           ELSE Finish(Result("cancel_failed", b.uid.v))
    /\ UNCHANGED <<op, args, bookings, slots, resolved, today_la, calls>>
    /\ UNCHANGED <<convVars, sessionVars, configVars, restVars, uiVars, concVars>>

\* reschedule_booking up to the get_bookings call
RescheduleBooking ==
    /\ pc = "idle"
    /\ \E ident \in Idents, dt \in Requests :
        /\ op' = "reschedule"
        /\ args' = [NoArgs EXCEPT !.ident = ident, !.dt = dt]
    /\ pc' = "resched_list"
    /\ calls' = MakeRequest(calls, "listBookings", [take |-> 100])
    /\ UNCHANGED <<bookings, slots, resolved, today_la, response, result>>
    /\ UNCHANGED <<convVars, sessionVars, configVars, restVars, uiVars, concVars>>

\* reschedule_booking from the bookings answer to the get_available_slots
\* call
RescheduleListReturn ==
    /\ pc = "resched_list"
    /\ \E resp \in BookingResponses :
        LET list == ClientGetBookings(resp)
            k == RescheduleResolve(list, args.ident)
        IN
        /\ bookings' = list
        /\ response' = resp
        /\ IF list = <<>>
           THEN /\ Finish(Result("no_bookings", <<>>))
                /\ resolved' = 0
                /\ calls' = calls
           ELSE IF k = 0
           THEN /\ Finish(RescheduleNotFound(list))
                /\ resolved' = 0
                /\ calls' = calls
           ELSE IF ~HasUid(list[k])
           THEN /\ Finish(Result("no_uid", list[k].id))
                /\ resolved' = k
                /\ calls' = calls
           ELSE IF LaToUtcRaises(args.dt)
           THEN /\ Finish(ErrorText)
                /\ resolved' = k
                /\ calls' = calls
           ELSE /\ pc' = "resched_slots"
                /\ resolved' = k
                /\ calls' = MakeRequest(calls,
                       "listAvailableSlots",
                            [eventTypeId |-> EventTypeId,
                             start_date |-> DayOf(args.dt.t),
                             end_date |-> DayOf(args.dt.t)])
                /\ result' = result
    /\ UNCHANGED <<op, args, slots, today_la>>
    /\ UNCHANGED <<convVars, sessionVars, configVars, restVars, uiVars, concVars>>

\* reschedule_booking from the slots answer to the reschedule call
RescheduleSlotsReturn ==
    /\ pc = "resched_slots"
    /\ \E resp \in {Failure} \cup
                   {Response(l) : l \in SeqsUpTo(SlotPool, MaxSlotsReschedule)} :
        LET available_slots == ClientGetAvailableSlots(resp)
            b == bookings[resolved]
        IN
        /\ slots' = available_slots
        /\ response' = resp
        /\ IF RequestedTimeMatches(available_slots, args.dt) = <<>>
           THEN /\ Finish(NoMatchResult(available_slots))
                /\ calls' = calls
           ELSE IF DurationRaises(b)
           THEN /\ Finish(ErrorText)
                /\ calls' = calls
           ELSE /\ pc' = "resched_call"
                /\ calls' = MakeRequest(calls,
                       "rescheduleBooking",
                            [uid |-> b.uid.v, start |-> convert_la_to_utc(args.dt)])
                /\ result' = result
    /\ UNCHANGED <<op, args, bookings, resolved, today_la>>
    /\ UNCHANGED <<convVars, sessionVars, configVars, restVars, uiVars, concVars>>

\* Bookings the service may answer a reschedule with
RescheduledPool ==
    {Booking(1, Some(UidA), TitleStandup, Iso(At(1, 21, 0), 0), Iso(At(1, 21, 30), 0))}

\* reschedule_booking from the reschedule answer to its return
RescheduleCallReturn ==
    /\ pc = "resched_call"
    /\ \E resp \in {Failure, Response(<<>>)} \cup
                   {Response(<<b>>) : b \in RescheduledPool} :
        LET updated_booking == ClientRescheduleBooking(resp)
            b == bookings[resolved]
        IN
        /\ response' = resp
        /\ IF updated_booking # <<>>
           THEN Finish(Result("rescheduled",
                   [original |-> convert_utc_to_la(b.startTime), new |-> args.dt.t,
                    title |-> updated_booking[1].title,
                    duration |-> b.endTime.t - b.startTime.t,
                    id |-> updated_booking[1].id, uid |-> updated_booking[1].uid]))
           ELSE Finish(Result("resched_failed", b.uid.v))
    /\ UNCHANGED <<op, args, bookings, slots, resolved, today_la, calls>>
    /\ UNCHANGED <<convVars, sessionVars, configVars, restVars, uiVars, concVars>>

\* Bookings list_bookings may be answered with: those above and a second
\* Standup whose start has the form without "Z" and is the instant at
\* which the first begins
ListedPool ==
    BookingPool \cup
    {Booking(5, Some(<<"u", "c">>), TitleStandup, IsoNaive(At(1, 22, 0), 0),
             IsoNaive(At(1, 22, 30), 0))}

\* list_bookings up to the get_bookings call
ListBookings ==
    /\ pc = "idle"
    /\ op' = "list"
    /\ args' = NoArgs
    /\ pc' = "list_list"
    /\ calls' = MakeRequest(calls, "listBookings", [take |-> 100])
    /\ UNCHANGED <<bookings, slots, resolved, today_la, response, result>>
    /\ UNCHANGED <<convVars, sessionVars, configVars, restVars, uiVars, concVars>>

\* list_bookings from the bookings answer to its return
ListBookingsReturn ==
    /\ pc = "list_list"
    /\ \E resp \in {Failure} \cup
                   {Response(l) : l \in SeqsUpTo(ListedPool, MaxBookings)} :
        LET list == ClientGetBookings(resp) IN
        /\ response' = resp
        /\ bookings' = SortByStart(list)
        /\ IF list = <<>>
           THEN Finish(Result("no_meetings", <<>>))
           ELSE Finish(Result("listing",
                    [i \in 1..Len(list) |-> ListEntry(SortByStart(list)[i])]))
    /\ UNCHANGED <<op, args, slots, resolved, today_la, calls>>
    /\ UNCHANGED <<convVars, sessionVars, configVars, restVars, uiVars, concVars>>

\* Dates get_available_slots is asked about
SlotDays == {1, 2}

\* Slot start strings of a range: those above, 2025-11-02T06:00Z (23:00 of
\* the local day before) and 2025-11-02T16:00Z (08:00 PST)
RangeSlotPool == SlotPool \cup {Iso(At(2, 6, 0), 0), Iso(At(2, 16, 0), 0)}

\* get_available_slots up to the client call; an empty end_date becomes
\* the start date
GetAvailableSlots ==
    /\ pc = "idle"
    /\ \E date \in SlotDays, end_date \in SlotDays \cup {NoDate} :
        LET e == IF end_date = NoDate THEN date ELSE end_date IN
        /\ op' = "get_slots"
        /\ args' = [NoArgs EXCEPT !.date = date, !.end_date = e]
        /\ calls' = MakeRequest(calls,
               "listAvailableSlots",
                    [eventTypeId |-> EventTypeId, start_date |-> date,
                     end_date |-> e])
    /\ pc' = "slots_list"
    /\ UNCHANGED <<bookings, slots, resolved, today_la, response, result>>
    /\ UNCHANGED <<convVars, sessionVars, configVars, restVars, uiVars, concVars>>

\* get_available_slots from the slots answer to its return
GetAvailableSlotsReturn ==
    /\ pc = "slots_list"
    /\ \E resp \in {Failure} \cup
                   {Response(l) : l \in SeqsUpTo(RangeSlotPool, MaxSlotsListed)} :
        LET available_slots == ClientGetAvailableSlots(resp) IN
        /\ response' = resp
        /\ slots' = available_slots
        /\ IF available_slots = <<>>
           THEN Finish(Result("no_slots", <<>>))
           ELSE IF SlotDates(available_slots) = {}
           THEN Finish(Result("no_valid_slots", <<>>))
           ELSE Finish(Result("slots", SlotGroups(available_slots)))
    /\ UNCHANGED <<op, args, bookings, resolved, today_la, calls>>
    /\ UNCHANGED <<convVars, sessionVars, configVars, restVars, uiVars, concVars>>

\* The tool returned; the agent may invoke the next tool
Return ==
    /\ pc = "done"
    /\ pc' = "idle"
    /\ op' = "none"
    /\ args' = NoArgs
    /\ bookings' = <<>>
    /\ slots' = <<>>
    /\ resolved' = 0
    /\ today_la' = 0
    /\ calls' = <<>>
    /\ response' = Failure
    /\ result' = Result("none", <<>>)
    /\ UNCHANGED <<convVars, sessionVars, configVars, restVars, uiVars, concVars>>

Next ==
    \/ BookMeeting
    \/ BookSlotsReturn
    \/ BookCreateReturn
    \/ CancelBooking
    \/ CancelListReturn
    \/ CancelCallReturn
    \/ RescheduleBooking
    \/ RescheduleListReturn
    \/ RescheduleSlotsReturn
    \/ RescheduleCallReturn
    \/ ListBookings
    \/ ListBookingsReturn
    \/ GetAvailableSlots
    \/ GetAvailableSlotsReturn
    \/ Return

Spec == Init /\ [][Next]_vars

---------------------------------------------------------------------------
(* The two time conversions on their own *)

\* UTC strings converted: every quarter of an hour within ConvSpan
\* quarters of the two transitions, with and without seconds and "Z", and
\* the empty string
UtcInstants ==
    {Iso(base + 15 * k, sec) :
        base \in {DstEndUtc, DstStartUtc}, k \in (0 - ConvSpan)..ConvSpan,
        sec \in {0, 30}}
    \cup {IsoNaive(base + 15 * k, 0) :
        base \in {DstEndUtc, DstStartUtc}, k \in (0 - ConvSpan)..ConvSpan}
    \cup {BadIso}

\* Local date/time pairs composed: every quarter of an hour within
\* ConvSpan quarters of 01:00 on 2025-11-02 and of 02:00 on 2026-03-08,
\* and a malformed pair
LocalTimes ==
    {Local(base + 15 * k) :
        base \in {DstEndLocal, DstStartLocal - 60}, k \in (0 - ConvSpan)..ConvSpan}
    \cup {BadLocal}

\* convert_utc_to_la(x)
ConvertUtcToLa ==
    /\ conv.phase = "idle"
    /\ \E x \in UtcInstants :
        conv' = IF UtcToLaRaises(x)
                THEN [NoConv EXCEPT !.phase = "local", !.utc = x, !.raised = TRUE]
                ELSE [NoConv EXCEPT !.phase = "local", !.utc = x,
                                    !.local = Local(convert_utc_to_la(x))]
    /\ UNCHANGED <<toolVars, sessionVars, configVars, restVars, uiVars, concVars>>

\* convert_la_to_utc(la.strftime("%Y-%m-%d"), la.strftime("%H:%M")) of the
\* local datetime just obtained: the strings keep the wall-clock fields
\* and drop the seconds and the offset
ConvertBack ==
    /\ conv.phase = "local"
    /\ ~conv.raised
    /\ conv' = [conv EXCEPT !.phase = "round",
                            !.back = convert_la_to_utc(conv.local)]
    /\ UNCHANGED <<toolVars, sessionVars, configVars, restVars, uiVars, concVars>>

\* convert_la_to_utc(date_str, time_str)
ConvertLaToUtc ==
    /\ conv.phase = "idle"
    /\ \E loc \in LocalTimes :
        conv' = IF LaToUtcRaises(loc)
                THEN [NoConv EXCEPT !.phase = "utc", !.local = loc, !.raised = TRUE]
                ELSE [NoConv EXCEPT !.phase = "utc", !.local = loc,
                                    !.back = convert_la_to_utc(loc)]
    /\ UNCHANGED <<toolVars, sessionVars, configVars, restVars, uiVars, concVars>>

\* The caller is done with the values
ConvertReturn ==
    /\ conv.phase # "idle"
    /\ conv' = NoConv
    /\ UNCHANGED <<toolVars, sessionVars, configVars, restVars, uiVars, concVars>>

TimeNext ==
    \/ ConvertUtcToLa
    \/ ConvertBack
    \/ ConvertLaToUtc
    \/ ConvertReturn

SpecTime == Init /\ [][TimeNext]_vars

---------------------------------------------------------------------------
(* SessionManager *)

SessionIds == {"s1", "s2", "s3"}

\* A datetime attribute that is still None, and one set at hour t
Unset == [set |-> FALSE, t |-> 0]
SetAt(t) == [set |-> TRUE, t |-> t]

\* LiveXChatSession(session_id): serial tells the objects apart;
\* created_at and last_active start as None
Session(session_id, serial) ==
    [session_id |-> session_id, serial |-> serial,
     created_at |-> Unset, last_active |-> Unset]

\* self.sessions[id] = v
Put(map, id, v) == [i \in DOMAIN map \cup {id} |-> IF i = id THEN v ELSE map[i]]

RemoveNothing(map, id) == map

\* del self.sessions[id]
Remove(map, id) == [i \in DOMAIN map \ {id} |-> map[i]]

\* SessionManager.get_session
GetSession ==
    /\ \E session_id \in SessionIds :
        LET fresh == session_id \notin DOMAIN sessions
            after == IF fresh
                     THEN Put(sessions, session_id, Session(session_id, created + 1))
                     ELSE sessions
        IN
        /\ fresh => created < MaxCreated
        /\ sessions' = after
        /\ created' = IF fresh THEN created + 1 ELSE created
        /\ ret' = [op |-> "get_session", id |-> session_id,
                   value |-> after[session_id], before |-> sessions]
        /\ obtained' = obtained \cup {session_id}
    /\ UNCHANGED now
    /\ UNCHANGED <<toolVars, convVars, configVars, restVars, uiVars, concVars>>

\* SessionManager.delete_session
DeleteSession ==
    /\ \E session_id \in SessionIds :
        /\ IF session_id \in DOMAIN sessions
           THEN /\ sessions' = Remove(sessions, session_id)
                /\ ret' = [op |-> "delete_session", id |-> session_id,
                           value |-> TRUE, before |-> sessions]
           ELSE /\ sessions' = sessions
                /\ ret' = [op |-> "delete_session", id |-> session_id,
                           value |-> FALSE, before |-> sessions]
        /\ obtained' = obtained \ {session_id}
    /\ UNCHANGED <<created, now>>
    /\ UNCHANGED <<toolVars, convVars, configVars, restVars, uiVars, concVars>>

\* SessionManager.list_sessions: the keys of the map
ListSessions ==
    /\ ret' = [op |-> "list_sessions", id |-> "", value |-> DOMAIN sessions,
               before |-> sessions]
    /\ UNCHANGED <<sessions, created, obtained, now>>
    /\ UNCHANGED <<toolVars, convVars, configVars, restVars, uiVars, concVars>>

SessionNext ==
    \/ GetSession
    \/ DeleteSession
    \/ ListSessions

SpecSessions == Init /\ [][SessionNext]_vars

---------------------------------------------------------------------------
(* Session activity and cleanup *)

\* LiveXChatSession.send_message up to the agent call: created_at is set
\* once, last_active at every message
Touched(session, t) ==
    [session EXCEPT !.created_at = IF session.created_at.set
                                   THEN session.created_at ELSE SetAt(t),
                    !.last_active = SetAt(t)]

\* send_message on a session of the manager; what the agent answers does
\* not change the session.  It is no call of the manager, so nothing of
\* the map is recorded with it.
SendMessage ==
    /\ \E session_id \in DOMAIN sessions :
        /\ sessions' = Put(sessions, session_id, Touched(sessions[session_id], now))
        /\ ret' = [op |-> "send_message", id |-> session_id, value |-> "reply",
                   before |-> <<>>]
    /\ UNCHANGED <<created, obtained, now>>
    /\ UNCHANGED <<toolVars, convVars, configVars, restVars, uiVars, concVars>>

\* An hour passes on the clock datetime.now() reads
Tick ==
    /\ now < MaxNow
    /\ now' = now + 1
    /\ UNCHANGED <<sessions, created, ret, obtained>>
    /\ UNCHANGED <<toolVars, convVars, configVars, restVars, uiVars, concVars>>

InactiveOrUnset(session, cutoff_time) ==
    ~session.last_active.set \/ session.last_active.t < cutoff_time

\* session.last_active and session.last_active < cutoff_time
Inactive(session, cutoff_time) ==
    session.last_active.set /\ session.last_active.t < cutoff_time

\* inactive_sessions of cleanup_inactive_sessions
InactiveSessions(map, cutoff_time) ==
    {sid \in DOMAIN map : Inactive(map[sid], cutoff_time)}

\* SessionManager.cleanup_inactive_sessions(max_inactive_hours)
CleanupInactiveSessions ==
    /\ \E max_inactive_hours \in 0..MaxInactiveHours :
        LET cutoff_time == now - max_inactive_hours
            inactive_sessions == InactiveSessions(sessions, cutoff_time)
        IN
        /\ sessions' = [sid \in DOMAIN sessions \ inactive_sessions |-> sessions[sid]]
        /\ ret' = [op |-> "cleanup_inactive_sessions", id |-> "",
                   value |-> Cardinality(inactive_sessions), before |-> sessions,
                   max_inactive_hours |-> max_inactive_hours, at |-> now]
        /\ obtained' = obtained \ inactive_sessions
    /\ UNCHANGED <<created, now>>
    /\ UNCHANGED <<toolVars, convVars, configVars, restVars, uiVars, concVars>>

CleanupNext ==
    \/ GetSession
    \/ SendMessage
    \/ Tick
    \/ CleanupInactiveSessions

SpecCleanup == Init /\ [][CleanupNext]_vars

---------------------------------------------------------------------------
(* Settings and the startup of the REST application *)

\* settings = Settings(): each required value is read from the environment
\* and is either a non-empty string or missing (""); DEBUG is "true" or not
LoadSettings ==
    /\ ~settings.loaded
    /\ \E openai, calcom, email, debug \in BOOLEAN :
        settings' = [loaded |-> TRUE, openai_api_key |-> openai,
                     calcom_api_key |-> calcom, user_email |-> email,
                     debug |-> debug]
    /\ UNCHANGED <<toolVars, convVars, sessionVars, restVars, uiVars, concVars>>

\* Settings.validate_required_settings raises ValueError
ValidateRaises(st) ==
    ~st.openai_api_key \/ ~st.calcom_api_key \/ ~st.user_email

\* startup_event: the ValueError of the validation is printed and raised
\* again only when debug is off; raised, it ends the application
StartupEvent ==
    /\ settings.loaded
    /\ app = "stopped"
    /\ app' = IF ValidateRaises(settings) /\ ~settings.debug
              THEN "failed" ELSE "serving"
    /\ UNCHANGED chat
    /\ UNCHANGED <<toolVars, convVars, sessionVars, configVars, uiVars, concVars>>

\* LiveXChatAgent() raises: no OpenAI key, or CalcomClient() without a
\* Cal.com key
AgentRaises(st) == ~st.openai_api_key \/ ~st.calcom_api_key

\* What the agent does with a message: answers directly, or runs a tool
AgentOutcomes == {"reply", "tool"}

\* POST /chat: get_session (a new LiveXChatSession for an id not in the
\* map; a request without id gets a fresh one), then send_message; any
\* exception becomes HTTP 500
Chat ==
    /\ app = "serving"
    /\ \E session_id \in SessionIds, outcome \in AgentOutcomes :
        LET fresh == session_id \notin DOMAIN sessions IN
        /\ fresh => created < MaxCreated
        /\ IF fresh /\ AgentRaises(settings)
           THEN /\ chat' = [status |-> "500", session_id |-> session_id,
                            tool |-> FALSE]
                /\ ret' = [op |-> "get_session", id |-> session_id,
                           value |-> "raised", before |-> sessions]
                /\ UNCHANGED <<sessions, created, obtained>>
           ELSE LET session == IF fresh THEN Session(session_id, created + 1)
                                        ELSE sessions[session_id]
                IN
                /\ sessions' = Put(sessions, session_id, Touched(session, now))
                /\ created' = IF fresh THEN created + 1 ELSE created
                /\ obtained' = obtained \cup {session_id}
                /\ ret' = [op |-> "get_session", id |-> session_id,
                           value |-> session, before |-> sessions]
                /\ chat' = [status |-> "200", session_id |-> session_id,
                            tool |-> outcome = "tool"]
    /\ UNCHANGED <<app, now>>
    /\ UNCHANGED <<toolVars, convVars, configVars, uiVars, concVars>>

StartupNext ==
    \/ LoadSettings
    \/ StartupEvent
    \/ Chat

SpecStartup == Init /\ [][StartupNext]_vars

---------------------------------------------------------------------------
(* The Streamlit chat interface: one browser session *)

\* Messages typed or picked from the suggestions
UserTexts == {"show my meetings today", "cancel a meeting"}

\* An entry of chat_history (the timestamp is left out)
Message(role, content) == [role |-> role, content |-> content]

\* agent.chat returns a text, or raises
ChatOutcomes == {"response", "raised"}

\* setup_agent: builds the agent once; a failed construction leaves
\* agent_ready False and sets error_message
ReadyAfterSetup == agent_ready \/ ~AgentRaises(settings)
ErrorAfterSetup == IF agent_ready THEN error_message ELSE AgentRaises(settings)

\* check_configuration
check_configuration(st) == st.openai_api_key /\ st.calcom_api_key /\ st.user_email

\* is_ready of run(): what render_status returns
IsReady == ~ErrorAfterSetup /\ check_configuration(settings)

\* The condition under which run() calls process_response
Pending ==
    /\ is_processing
    /\ chat_history # <<>>
    /\ chat_history[Len(chat_history)].role = "user"

ProcessingKeptOnError(outcome) == outcome = "raised"

\* is_processing after process_response: its finally clause resets the
\* flag on both paths
ProcessingAfter(outcome) == FALSE

\* chat_history after process_response: the agent's text, or the apology
\* of the except clause
process_response(history, outcome) ==
    Append(history,
           IF outcome = "response"
           THEN Message("assistant", "response")
           ELSE Message("assistant", "Sorry, I encountered an error"))

\* One run of the script: SimpleChatInterface() and run().  The event is
\* the widget that triggered the run.  A pending message is processed
\* before anything is rendered and st.rerun() ends the run, so the event
\* is looked at only when nothing is pending.  The script imports the
\* settings before its first run.
ScriptRun(event, message) ==
    /\ agent_ready' = ReadyAfterSetup
    /\ error_message' = ErrorAfterSetup
    /\ IF ~IsReady
       THEN UNCHANGED <<chat_history, is_processing>>
       ELSE IF Pending
       THEN \E outcome \in ChatOutcomes :
               /\ chat_history' = process_response(chat_history, outcome)
               /\ is_processing' = ProcessingAfter(outcome)
       ELSE IF event = "clear"
       THEN \* clear_chat
            /\ chat_history' = <<>>
            /\ UNCHANGED is_processing
       ELSE IF event = "send"
       THEN \* send_message
            IF ~ReadyAfterSetup \/ is_processing
            THEN UNCHANGED <<chat_history, is_processing>>
            ELSE /\ chat_history' = Append(chat_history, Message("user", message))
                 /\ is_processing' = TRUE
       ELSE UNCHANGED <<chat_history, is_processing>>
    /\ UNCHANGED <<toolVars, convVars, sessionVars, configVars, restVars, concVars>>

\* A run started by st.rerun() or by the Export button
RunRerun ==
    /\ settings.loaded
    /\ ScriptRun("none", "")

\* A run started by the Send button of the form or by a suggestion button
RunSend ==
    /\ settings.loaded
    /\ Len(chat_history) < MaxHistory
    /\ \E message \in UserTexts : ScriptRun("send", message)

\* A run started by the Clear button
RunClear ==
    /\ settings.loaded
    /\ ScriptRun("clear", "")

UiNext ==
    \/ LoadSettings
    \/ RunRerun
    \/ RunSend
    \/ RunClear

SpecUi == Init /\ [][UiNext]_vars

---------------------------------------------------------------------------
(* Two book_meeting invocations at once *)

\* Each browser session of the Streamlit interface runs its script, and so
\* its agent and tools, in a thread of its own; the tools share the global
\* client of get_calcom_client and take no lock.  An invocation is
\* interleaved with the other at its external calls.

RECURSIVE OfferSeq(_)
\* The slots on offer as the slots API lists them, earliest first
OfferSeq(S) ==
    IF S = {} THEN <<>>
    ELSE LET s == CHOOSE x \in S : \A y \in S : x.t <= y.t
         IN  <<s>> \o OfferSeq(S \ {s})

OfferHeld(offer, dt) ==
    {s \in offer : RequestedTimeMatches(<<s>>, dt) = <<>>}

\* The offer after get_available_slots: the call is a GET of /slots and
\* book_meeting keeps nothing of its answer but the local list it scans
OfferAfterCheck(offer, dt) == offer

\* book_meeting of one invocation up to the get_available_slots call
ConcBook ==
    /\ \E w \in Workers, dt \in Requests :
        /\ workers[w].pc = "idle"
        /\ workers' = [workers EXCEPT ![w] =
               IF LaToUtcRaises(dt)
               THEN [pc |-> "done", dt |-> dt, start |-> BadIso, kind |-> "error"]
               ELSE [pc |-> "book_slots", dt |-> dt, start |-> BadIso,
                     kind |-> "none"]]
    /\ UNCHANGED available
    /\ UNCHANGED <<toolVars, convVars, sessionVars, configVars, restVars, uiVars>>

\* The slots answer of one invocation: the offer of that moment, or a
\* failure; a match leads to the create_booking call
ConcSlotsReturn ==
    /\ \E w \in Workers, resp \in {Failure, Response(OfferSeq(available))} :
        LET available_slots == ClientGetAvailableSlots(resp)
            dt == workers[w].dt
        IN
        /\ workers[w].pc = "book_slots"
        /\ available' = OfferAfterCheck(available, dt)
        /\ workers' = [workers EXCEPT ![w] =
               IF RequestedTimeMatches(available_slots, dt) = <<>>
               THEN [pc |-> "done", dt |-> dt, start |-> BadIso,
                     kind |-> NoMatchResult(available_slots).kind]
               ELSE [pc |-> "book_create", dt |-> dt,
                     start |-> BookingRequest(convert_la_to_utc(dt), <<>>, <<>>).start,
                     kind |-> "none"]]
    /\ UNCHANGED <<toolVars, convVars, sessionVars, configVars, restVars, uiVars>>

\* The create_booking answer of one invocation: the service books the
\* start and withdraws it from the offer, or refuses and the client raises
ConcCreateReturn ==
    /\ \E w \in Workers, accepted \in BOOLEAN :
        /\ workers[w].pc = "book_create"
        /\ IF accepted
           THEN /\ available' = {s \in available : s.t # workers[w].start.t}
                /\ workers' = [workers EXCEPT ![w].pc = "done", ![w].kind = "booked"]
           ELSE /\ available' = available
                /\ workers' = [workers EXCEPT ![w].pc = "done", ![w].kind = "error"]
    /\ UNCHANGED <<toolVars, convVars, sessionVars, configVars, restVars, uiVars>>

ConcNext ==
    \/ ConcBook
    \/ ConcSlotsReturn
    \/ ConcCreateReturn

SpecConcurrent == Init /\ [][ConcNext]_vars

---------------------------------------------------------------------------
(* Properties *)

Called(api) == \E i \in 1..Len(calls) : calls[i].api = api

CallsOf(api) == SelectSeq(calls, LAMBDA c : c.api = api)

\* The get_available_slots answer of this invocation has been processed
SlotsAnswered ==
    /\ op \in {"book", "reschedule"}
    /\ Called("listAvailableSlots")
    /\ pc \notin {"book_slots", "resched_slots"}

\* The get_bookings answer of this invocation has been processed
ListAnswered ==
    /\ op \in {"cancel", "reschedule"}
    /\ pc \notin {"cancel_list", "resched_list"}

\* The slot's UTC minute is the requested local date/time converted to UTC
UtcMinuteEqual(slot, dt) ==
    /\ slot.ok
    /\ dt.ok
    /\ <<DayOf(slot.t), HourOf(slot.t), MinuteOf(slot.t)>>
         = LET u == IF dt.t < DstEndLocal THEN dt.t + PdtOffset ELSE dt.t + PstOffset
           IN  <<DayOf(u), HourOf(u), MinuteOf(u)>>

SomeSlotAtRequestedUtcMinute ==
    \E i \in 1..Len(slots) : UtcMinuteEqual(slots[i], args.dt)

\* C1: in book and reschedule the match check is true exactly when some
\* returned slot has the UTC minute of the requested local date/time.
C1_MatchIsUtcMinuteEquality ==
    SlotsAnswered =>
        ((RequestedTimeMatches(slots, args.dt) # <<>>)
            <=> SomeSlotAtRequestedUtcMinute)

\* C2: when the slot list holds the UTC equivalent of the requested local
\* date/time and createBooking does not fail, book calls createBooking
\* exactly once, with start = toUtc(date, time), the fixed event type and
\* the supplied attendee, and returns a confirmation with the supplied
\* email.
C2_BookCreatesWhenUtcSlotListed ==
    (/\ op = "book"
     /\ pc = "done"
     /\ SlotsAnswered
     /\ SomeSlotAtRequestedUtcMinute
     /\ result.kind # "error")
    => /\ Len(CallsOf("createBooking")) = 1
       /\ LET request == CallsOf("createBooking")[1].arg IN
          /\ UtcMinuteEqual(request.start, args.dt)
          /\ request.eventTypeId = EventTypeId
          /\ request.attendee = [name |-> args.name, email |-> args.email]
       /\ result.kind = "booked"
       /\ result.body.email = args.email

\* C3: createBooking and rescheduleBooking are called only after a
\* listAvailableSlots answer that held a slot at the requested UTC minute;
\* when no slot matches neither is called and the tool returns a result.
C3_MutationOnlyAfterMatchingSlot ==
    /\ \A i \in 1..Len(calls) :
          calls[i].api \in {"createBooking", "rescheduleBooking"}
          => /\ \E j \in 1..(i - 1) : calls[j].api = "listAvailableSlots"
             /\ SomeSlotAtRequestedUtcMinute
    /\ (SlotsAnswered /\ ~SomeSlotAtRequestedUtcMinute)
          => /\ ~Called("createBooking")
             /\ ~Called("rescheduleBooking")
             /\ pc = "done"
             /\ result.kind \in {"unavailable", "no_slots"}

\* The local clock time of a slot, as the "unavailable" answer prints it
LocalClockOf(slot) ==
    LET l == IF slot.t < DstEndUtc THEN slot.t - PdtOffset ELSE slot.t - PstOffset
    IN  <<IF HourOf(l) % 12 = 0 THEN 12 ELSE HourOf(l) % 12, MinuteOf(l),
          IF HourOf(l) < 12 THEN "AM" ELSE "PM">>

\* C4: when no slot matches, book answers "unavailable" with at most five
\* alternatives, the first slots of the list in API order in local time,
\* if the list is non-empty, and "no availability" if it is empty (stated
\* here for slot lists whose strings all parse).
C4_NoMatchListsFirstFiveSlots ==
    (/\ op = "book"
     /\ SlotsAnswered
     /\ \A i \in 1..Len(slots) : slots[i].ok
     /\ ~SomeSlotAtRequestedUtcMinute)
    => /\ pc = "done"
       /\ IF slots = <<>>
          THEN result.kind = "no_slots"
          ELSE /\ result.kind = "unavailable"
               /\ Len(result.body) = Min(ShownSlots, Len(slots))
               /\ \A i \in 1..Len(result.body) :
                     /\ slots[i].ok
                     /\ result.body[i] = LocalClockOf(slots[i])

\* The identifier is all digits and equals the id of bookings[i]
IdNames(i) ==
    /\ Len(args.ident) > 0
    /\ \A k \in 1..Len(args.ident) : args.ident[k] \in Digits
    /\ bookings[i].id = ToInt(args.ident)

\* The identifier equals the UID of bookings[i]
UidNames(i) == bookings[i].uid = [some |-> TRUE, v |-> args.ident]

AllDigitsIdent ==
    Len(args.ident) > 0 /\ \A k \in 1..Len(args.ident) : args.ident[k] \in Digits

\* The least element of a set of indices of bookings, 0 if it is empty
Least(S) == IF S = {} THEN 0 ELSE CHOOSE i \in S : \A j \in S : j >= i

Indices == 1..Len(bookings)

\* C5: an all-digits identifier equal to the numeric id of a booking of
\* the list resolves, in cancel and in reschedule, to the (first) booking
\* with that id, whatever titles and time tokens contain it.
C5_NumericIdTakesPrecedence ==
    (ListAnswered /\ \E i \in 1..Len(bookings) : IdNames(i))
    => resolved = Least({i \in Indices : IdNames(i)})

C5_Witness ==
    /\ op \in {"cancel", "reschedule"}
    /\ ListAnswered
    /\ args.ident = <<"1">>
    /\ Len(bookings) = 2
    /\ bookings[1].title = Title1pmSync
    /\ bookings[2].id = 1
    /\ resolved = 2

\* C6 as claimed: whenever the numeric-id step found no booking, an
\* identifier equal to the UID of a booking resolves to that booking.
C6_UidTriedAfterIdMiss ==
    (/\ ListAnswered
     /\ ~\E i \in 1..Len(bookings) : IdNames(i)
     /\ \E i \in 1..Len(bookings) : UidNames(i))
    => resolved = Least({i \in Indices : UidNames(i)})

\* bookings[i] passes the title check or one of the time checks
HeuristicHit(i) ==
    LET b == bookings[i]
        id_lower == Lower(args.ident)
    IN  \/ Contains(Lower(b.title), id_lower)
        \/ /\ b.startTime.ok
           /\ LET la == convert_utc_to_la(b.startTime) IN
              \/ Contains(id_lower, TimeToken(la))
              \/ Contains(id_lower, DateStr(la))
              \/ Contains(id_lower, WordToday) /\ DayOf(la) = today_la
              \/ Contains(id_lower, WordTomorrow) /\ DayOf(la) = today_la + 1

\* C6 amended: an identifier that is not all digits and equals the UID of
\* a booking resolves to the first booking with that UID, before any title
\* or time check; an all-digits identifier is never compared with UIDs:
\* when it equals no id, a booking resolves only by its title or time.
C6_UidTriedForNonDigitIdentifier ==
    /\ (/\ ListAnswered
        /\ ~AllDigitsIdent
        /\ \E i \in 1..Len(bookings) : UidNames(i))
       => resolved = Least({i \in Indices : UidNames(i)})
    /\ (/\ ListAnswered
        /\ AllDigitsIdent
        /\ ~\E i \in 1..Len(bookings) : IdNames(i)
        /\ resolved # 0)
       => HeuristicHit(resolved)

C6_Witness ==
    /\ op = "cancel"
    /\ ListAnswered
    /\ args.ident = UidB
    /\ Len(bookings) = 2
    /\ bookings[1].title = TitleStandup
    /\ bookings[2].uid = Some(UidB)
    /\ resolved = 2

C8_NotFoundListsEveryBooking ==
    (/\ ListAnswered
     /\ bookings # <<>>
     /\ resolved = 0)
    => /\ pc = "done"
       /\ ~Called("cancelBooking")
       /\ ~Called("rescheduleBooking")
       /\ result.kind = "not_found"
       /\ Len(result.body) = Len(bookings)
       /\ \A i \in 1..Len(bookings) :
             /\ DOMAIN result.body[i] = {"title", "id", "uid", "start"}
             /\ result.body[i].title = bookings[i].title
             /\ result.body[i].id = bookings[i].id

\* The resolved booking has no UID (None or empty)
ResolvedLacksUid ==
    /\ ListAnswered
    /\ resolved # 0
    /\ (~bookings[resolved].uid.some \/ bookings[resolved].uid.v = <<>>)

\* C9: when the resolved booking has no UID, cancel and reschedule return
\* the "UID is required" result having called nothing but get_bookings.
C9_NoUidNoCall ==
    ResolvedLacksUid
    => /\ pc = "done"
       /\ result.kind = "no_uid"
       /\ Len(calls) = 1
       /\ calls[1].api = "listBookings"

C9_Witness ==
    /\ op = "reschedule"
    /\ ResolvedLacksUid
    /\ args.dt.ok
    /\ result.kind = "no_uid"

\* The cancel response reports a failure
ReportsFailure(body) ==
    \/ body.status = "error" /\ body.success # "true"
    \/ body.success = "false" /\ body.status # "success"

\* C10: cancel returns the success text only when the cancel call
\* succeeded and the API reported success; when the call fails or the
\* response reports a failure it returns the "Failed to cancel" text.
C10_SuccessTextOnlyOnApiSuccess ==
    (op = "cancel" /\ pc = "done" /\ Called("cancelBooking"))
    => /\ result.kind = "canceled"
          => (response.ok /\ ~ReportsFailure(response.data))
       /\ (~response.ok \/ ReportsFailure(response.data))
          => result.kind = "cancel_failed"

\* The kinds of text a tool returns
TextKinds ==
    {"error", "unavailable", "no_slots", "booked", "no_bookings", "not_found",
     "no_uid", "canceled", "cancel_failed", "rescheduled", "resched_failed",
     "no_meetings", "listing", "no_valid_slots", "slots"}

\* C11: no exception escapes a tool invocation: whatever the inputs and
\* the outcome of the external calls, book, list, cancel, reschedule and
\* get-available-slots end by returning a text.
C11_NoExceptionEscapes ==
    /\ result.kind # "raised"
    /\ pc = "done" => result.kind \in TextKinds
    /\ pc # "done" => result.kind = "none"

\* A transport error of createBooking and a booking record without start
\* and end both end in a returned text
C11_Witness ==
    \/ /\ op = "book"
       /\ pc = "done"
       /\ Called("createBooking")
       /\ ~response.ok
       /\ result.kind = "error"
    \/ /\ op = "cancel"
       /\ pc = "done"
       /\ Called("cancelBooking")
       /\ ~bookings[resolved].startTime.ok
       /\ result.kind = "error"

\* The tool has returned and its last external call, a listBookings or a
\* listAvailableSlots, failed in transport or decoding
ListingCallFailed ==
    /\ pc = "done"
    /\ calls # <<>>
    /\ calls[Len(calls)].api \in {"listBookings", "listAvailableSlots"}
    /\ ~response.ok

\* C12: when listBookings or listAvailableSlots fails, the tool returns an
\* error text and none of the empty-result texts.
C12_FailedCallReportedAsError ==
    ListingCallFailed => result.kind = "error"

\* C13: reschedule resolves the identifier, then checks availability on
\* the new date, then calls rescheduleBooking at most once, with the
\* resolved booking's UID and the new local date/time converted to UTC; a
\* null or failed answer gives the failure text, never the success text.
C13_RescheduleOrder ==
    op = "reschedule" =>
        /\ Len(CallsOf("rescheduleBooking")) <= 1
        /\ Called("rescheduleBooking") =>
              /\ [i \in 1..Len(calls) |-> calls[i].api]
                    = <<"listBookings", "listAvailableSlots", "rescheduleBooking">>
              /\ calls[2].arg.start_date = DayOf(args.dt.t)
              /\ resolved \in 1..Len(bookings)
              /\ bookings[resolved].uid = [some |-> TRUE, v |-> calls[3].arg.uid]
              /\ UtcMinuteEqual(calls[3].arg.start, args.dt)
              /\ calls[3].arg.start.sec = 0
              /\ calls[3].arg.start.z
        /\ (/\ pc = "done"
            /\ Called("rescheduleBooking")
            /\ (~response.ok \/ response.data = <<>>))
           => result.kind = "resched_failed"
        /\ result.kind = "rescheduled"
           => /\ Called("rescheduleBooking")
              /\ response.ok
              /\ response.data # <<>>

C13_Witness ==
    /\ op = "reschedule"
    /\ pc = "done"
    /\ Called("rescheduleBooking")
    /\ response.ok
    /\ response.data = <<>>
    /\ result.kind = "resched_failed"

\* Minutes after midnight of a printed "%I:%M %p" time
ClockMinute(c) ==
    ((c[1] % 12) + (IF c[3] = "PM" THEN 12 ELSE 0)) * 60 + c[2]

\* C14: get-available-slots prints the date groups in ascending date order
\* and, inside each group, the slot times in ascending chronological
\* order.
C14_SlotsAscendingPerDate ==
    (op = "get_slots" /\ result.kind = "slots")
    => /\ \A i, j \in 1..Len(result.body) :
             i < j => result.body[i].date < result.body[j].date
       /\ \A g \in 1..Len(result.body) :
             LET times == result.body[g].times IN
             \A i, j \in 1..Len(times) :
                 i < j => ClockMinute(times[i]) <= ClockMinute(times[j])

\* The UTC instant of a start string, in seconds
Instant(iso) == iso.t * 60 + iso.sec

\* The ids of the bookings of a list that start at instant x, in list order
IdsStartingAt(list, x) ==
    LET there == SelectSeq(list, LAMBDA b : Instant(b.startTime) = x)
    IN  [i \in 1..Len(there) |-> there[i].id]

\* C15: list prints the bookings in ascending order of start instant, and
\* bookings with equal starts in their API order, for every list whose
\* starts are UTC ISO strings with or without the trailing "Z".
C15_ListAscendingByStart ==
    (/\ op = "list"
     /\ result.kind = "listing"
     /\ \A i \in 1..Len(response.data) : response.data[i].startTime.ok)
    => /\ \A i, j \in 1..Len(bookings) :
             i < j => Instant(bookings[i].startTime) <= Instant(bookings[j].startTime)
       /\ [i \in 1..Len(result.body) |-> result.body[i].id]
             = [i \in 1..Len(bookings) |-> bookings[i].id]
       /\ \A k \in 1..Len(bookings) :
             LET x == Instant(bookings[k].startTime) IN
             IdsStartingAt(bookings, x) = IdsStartingAt(response.data, x)

\* The UTC instant lies in the two hours, one before and one after the end
\* of daylight saving, whose local wall-clock times coincide
OnDstBoundary(x) ==
    /\ DayOf(x.t) = 2
    /\ HourOf(x.t) \in {8, 9}

\* C16: converting a UTC instant that is not on a daylight-saving boundary
\* to local date and time and back yields the same UTC minute.
C16_RoundTripUtcLocalUtc ==
    (conv.phase = "round" /\ ~OnDstBoundary(conv.utc))
    => /\ conv.back.ok
       /\ conv.back.t = conv.utc.t

\* 10:00:30Z on the day daylight saving ends (02:00 PST) and 10:00Z on the
\* day it starts (03:00 PDT) round-trip
C16_Witness ==
    /\ conv.phase = "round"
    /\ \/ conv.utc = Iso(At(2, 10, 0), 30)
       \/ conv.utc = Iso(At(128, 10, 0), 0)
    /\ conv.back.t = conv.utc.t

\* The local time is one of the repeated hour 01:00-01:59 of 2025-11-02
AmbiguousLocal(loc) == DayOf(loc.t) = 2 /\ HourOf(loc.t) = 1

\* The local time is one of the skipped hour 02:00-02:59 of 2026-03-08
NonexistentLocal(loc) == DayOf(loc.t) = 128 /\ HourOf(loc.t) = 2

\* C17: toUtc fails with a conversion error for every local date+time
\* that is ambiguous or nonexistent, and returns no UTC string for it.
C17_ToUtcFailsInDstGapOrOverlap ==
    (/\ conv.phase = "utc"
     /\ conv.local.ok
     /\ (AmbiguousLocal(conv.local) \/ NonexistentLocal(conv.local)))
    => /\ conv.raised
       /\ ~conv.back.ok

\* The sessions of a map other than that of id are those of another map
SameElsewhere(map, other, id) ==
    /\ DOMAIN map \ {id} = DOMAIN other \ {id}
    /\ \A i \in DOMAIN map \ {id} : map[i] = other[i]

\* The serials of the session objects of a map
Serials(map) == {map[i].serial : i \in DOMAIN map}

\* C18: the session manager keeps one session per id.  get_session returns
\* the existing session of an id in the map and otherwise stores and
\* returns one new session; delete_session returns True and removes the
\* entry iff the id was present, and else returns False and changes
\* nothing; list_sessions is exactly the set of ids obtained and not
\* deleted since.
C18_OneSessionPerId ==
    /\ DOMAIN sessions = obtained
    /\ \A i \in DOMAIN sessions : sessions[i].session_id = i
    /\ ret.op = "get_session" =>
          /\ ret.id \in DOMAIN sessions
          /\ ret.value = sessions[ret.id]
          /\ SameElsewhere(sessions, ret.before, ret.id)
          /\ IF ret.id \in DOMAIN ret.before
             THEN sessions = ret.before
             ELSE ret.value.serial \notin Serials(ret.before)
    /\ ret.op = "delete_session" =>
          /\ ret.value = (ret.id \in DOMAIN ret.before)
          /\ ret.id \notin DOMAIN sessions
          /\ SameElsewhere(sessions, ret.before, ret.id)
    /\ ret.op = "list_sessions" => ret.value = obtained

\* An id obtained, deleted and obtained again, next to a second id that
\* was deleted last
C18_Witness ==
    /\ ret.op = "delete_session"
    /\ ret.value = TRUE
    /\ created = 3
    /\ Cardinality(DOMAIN sessions) = 1
    /\ \E i \in DOMAIN sessions : sessions[i].serial = 3

\* The identifier is a substring of the title of bookings[i], whatever the
\* case of the letters
TitleHit(i) ==
    LET title == bookings[i].title IN
    \E k \in 1..(Len(title) - Len(args.ident) + 1) :
        \A n \in 1..Len(args.ident) :
            LowerChar(title[k + n - 1]) = LowerChar(args.ident[n])

\* bookings[i] passes a time check and not the title check
TimeOnlyHit(i) == HeuristicHit(i) /\ ~TitleHit(i)

\* cancel got its bookings and neither the id nor the UID step resolved
FreeTextResolution ==
    /\ op = "cancel"
    /\ ListAnswered
    /\ bookings # <<>>
    /\ ~(AllDigitsIdent /\ \E i \in 1..Len(bookings) : IdNames(i))
    /\ ~(~AllDigitsIdent /\ \E i \in 1..Len(bookings) : UidNames(i))

\* C19 as claimed: when one booking matches by title and another only by a
\* time check, the booking resolved is one that matches by title, whatever
\* their positions.
C19_TitleAlwaysWins ==
    (/\ FreeTextResolution
     /\ \E i \in Indices : TitleHit(i)
     /\ \E j \in Indices : TimeOnlyHit(j))
    => /\ resolved # 0
       /\ TitleHit(resolved)

\* C19 amended: the title check wins over the time checks only booking by
\* booking.  The first booking in list order that passes either is
\* resolved: the first title match if no booking before it passes a time
\* check, and else the first booking that passes a time check.
C19_TitleWinsOnlyIfNoEarlierTimeMatch ==
    (/\ FreeTextResolution
     /\ \E i \in Indices : TitleHit(i)
     /\ \E j \in Indices : TimeOnlyHit(j))
    => IF Least({j \in Indices : TimeOnlyHit(j)}) < Least({i \in Indices : TitleHit(i)})
       THEN resolved = Least({j \in Indices : TimeOnlyHit(j)})
       ELSE resolved = Least({i \in Indices : TitleHit(i)})

\* "today" on 2025-11-01 resolves "1pm sync", which starts that day, and
\* not the booking titled "Today" behind it
C19_Witness ==
    /\ FreeTextResolution
    /\ args.ident = WordToday
    /\ today_la = 1
    /\ Len(bookings) = 2
    /\ bookings[1].title = Title1pmSync
    /\ bookings[2].title = TitleToday
    /\ resolved = 1

\* The hour of a local time on the 12-hour clock without a leading zero,
\* then "am" or "pm": "3pm", "11am"
CompactToken(la) ==
    LET h == IF HourOf(la) % 12 = 0 THEN 12 ELSE HourOf(la) % 12
        hour == IF h >= 10 THEN <<"1", DigitChar(h - 10)>> ELSE <<DigitChar(h)>>
    IN  hour \o (IF HourOf(la) < 12 THEN <<"a", "m">> ELSE <<"p", "m">>)

\* The identifier holds the compact token of the local start of bookings[i]
CompactTokenHit(i) ==
    /\ bookings[i].startTime.ok
    /\ Contains(Lower(args.ident),
                CompactToken(convert_utc_to_la(bookings[i].startTime)))

\* C20: an identifier that holds the unpadded hour+meridiem token of a
\* booking's local start and matches no id, UID or title resolves, in
\* cancel, to that booking (the first such booking in list order, unless
\* a booking before it passes another time check).
C20_CompactHourTokenResolves ==
    (/\ FreeTextResolution
     /\ ~\E i \in Indices : IdNames(i) \/ UidNames(i) \/ TitleHit(i)
     /\ \E i \in Indices : CompactTokenHit(i))
    => resolved = Least({i \in Indices : CompactTokenHit(i) \/ HeuristicHit(i)})

\* C21: cancel and reschedule resolve every identifier against every
\* booking list to the same booking, or both to none, also when the
\* identifier matches only by time token, local date, "today" or
\* "tomorrow" (whatever the current local date).
C21_RescheduleResolvesAsCancel ==
    (/\ op = "reschedule"
     /\ ListAnswered
     /\ bookings # <<>>)
    => \E today \in TodayChoices :
          resolved = CancelResolve(bookings, args.ident, today)

\* Both the start and the end string of the booking convert
TimesParse(b) == b.startTime.ok /\ b.endTime.ok

\* C22: whenever get_bookings returns a non-empty list, list answers with
\* one entry per booking of the list: the placeholder entry for a booking
\* whose start or end does not parse, and title, id, UID, local start and
\* local end for every other booking.
C22_UnparseableBookingDoesNotAbortList ==
    (/\ op = "list"
     /\ pc = "done"
     /\ response.ok
     /\ response.data # <<>>)
    => /\ result.kind = "listing"
       /\ Len(result.body) = Len(response.data)
       /\ \A i \in 1..Len(response.data) :
             \E k \in 1..Len(result.body) : result.body[k].id = response.data[i].id
       /\ \A k \in 1..Len(result.body) :
             LET b == bookings[k]
                 e == result.body[k]
             IN  /\ e.id = b.id
                 /\ e.title = b.title
                 /\ e.uid = UidOrNA(b)
                 /\ e.parsed = TimesParse(b)
                 /\ e.parsed => /\ e.start = convert_utc_to_la(b.startTime)
                                /\ e.end = convert_utc_to_la(b.endTime)

C22_Witness ==
    /\ op = "list"
    /\ result.kind = "listing"
    /\ Len(result.body) = 2
    /\ \E i, j \in 1..2 : /\ ~result.body[i].parsed
                          /\ result.body[j].parsed
                          /\ ~TimesParse(bookings[i])
                          /\ TimesParse(bookings[j])

\* C23: when the date/time given to book or reschedule is malformed, the
\* tool returns an error message and calls neither createBooking nor
\* rescheduleBooking; book makes no external call at all.
C23_MalformedDateFailsFast ==
    (/\ op \in {"book", "reschedule"}
     /\ ~args.dt.ok)
    => /\ ~Called("createBooking")
       /\ ~Called("rescheduleBooking")
       /\ op = "book" => calls = <<>>
       /\ pc = "done" => result.kind = "error"

\* C24: the BookingRequest passed to createBooking carries the supplied
\* title and description, the date/time as UTC start, the attendee name
\* and email and the fixed event-type id.
C24_RequestCarriesEverySuppliedField ==
    \A i \in 1..Len(calls) :
        calls[i].api = "createBooking"
        => /\ calls[i].arg.title = Some(args.title)
           /\ calls[i].arg.description = Some(args.description)
           /\ calls[i].arg.start = convert_la_to_utc(args.dt)
           /\ calls[i].arg.attendee.name = args.name
           /\ calls[i].arg.attendee.email = args.email
           /\ calls[i].arg.eventTypeId = EventTypeId

\* The external calls of each tool, in the order it may make them
ApiOrder ==
    [book |-> <<"listAvailableSlots", "createBooking">>,
     cancel |-> <<"listBookings", "cancelBooking">>,
     reschedule |-> <<"listBookings", "listAvailableSlots", "rescheduleBooking">>,
     list |-> <<"listBookings">>,
     get_slots |-> <<"listAvailableSlots">>]

\* C26: the calls of one invocation are an initial part of the tool's
\* fixed order, so there are at most 3 and none is made twice; list and
\* get-slots make exactly one; and once a call has failed the invocation
\* makes no further call.
C26_AtMostThreeCallsNoRetry ==
    op # "none"
    => /\ Len(calls) <= 3
       /\ Len(calls) <= Len(ApiOrder[op])
       /\ \A i \in 1..Len(calls) : calls[i].api = ApiOrder[op][i]
       /\ op \in {"list", "get_slots"} => Len(calls) = 1
       /\ (pc = "done" /\ calls # <<>> /\ ~response.ok)
             => \A i, j \in 1..Len(calls) :
                   calls[i].api = calls[j].api => i = j

C26_Witness ==
    /\ op = "reschedule"
    /\ pc = "done"
    /\ Len(calls) = 3
    /\ calls[3].api = "rescheduleBooking"
    /\ ~response.ok
    /\ result.kind = "resched_failed"

\* A cancelBooking or rescheduleBooking call has been made
Mutated == Called("cancelBooking") \/ Called("rescheduleBooking")

\* C30: the UID of every cancelBooking or rescheduleBooking call is the
\* UID of a booking of the fetched list, and for the empty identifier, or
\* one made of text that is in no id, UID, title or time token, no booking
\* resolves and no mutating call is made.
C30_MutationOnlyForNamedBooking ==
    /\ \A i \in 1..Len(calls) :
          calls[i].api \in {"cancelBooking", "rescheduleBooking"}
          => \E k \in 1..Len(bookings) : bookings[k].uid = Some(calls[i].arg.uid)
    /\ (ListAnswered /\ args.ident \in {<<>>, <<"z", "z", "z">>})
          => resolved = 0 /\ ~Mutated

\* C28: cleanup_inactive_sessions(h) removes exactly the sessions whose
\* last_active is set and earlier than now - h hours, returns how many it
\* removed and leaves every other session as it was, the sessions that
\* never received a message (last_active unset) among them.
C28_CleanupRemovesExactlyInactive ==
    ret.op = "cleanup_inactive_sessions"
    => LET cutoff == ret.at - ret.max_inactive_hours
           gone == {sid \in DOMAIN ret.before :
                       /\ ret.before[sid].last_active.set
                       /\ ret.before[sid].last_active.t < cutoff}
       IN  /\ DOMAIN sessions = DOMAIN ret.before \ gone
           /\ \A sid \in DOMAIN sessions : sessions[sid] = ret.before[sid]
           /\ ret.value = Cardinality(gone)
           /\ \A sid \in DOMAIN ret.before :
                 ~ret.before[sid].last_active.set => sid \in DOMAIN sessions

\* A cleanup that removed one session and kept a session that never had a
\* message and a session last active exactly at the cutoff
C28_Witness ==
    /\ ret.op = "cleanup_inactive_sessions"
    /\ ret.value = 1
    /\ Cardinality(DOMAIN ret.before) = 3
    /\ \E sid \in DOMAIN sessions : ~sessions[sid].last_active.set
    /\ \E sid \in DOMAIN sessions :
          /\ sessions[sid].last_active.set
          /\ sessions[sid].last_active.t = ret.at - ret.max_inactive_hours

\* A required setting is missing
MissingConfig == ValidateRaises(settings)

\* C25: a missing OpenAI key, Cal.com key or user email is fatal at the
\* startup of the REST application whether debug is on or off, so the
\* application never serves, and no chat request reaches a tool, with a
\* required setting missing.
C25_MissingConfigIsFatal ==
    /\ app = "serving" => ~MissingConfig
    /\ chat.tool => ~MissingConfig

\* The roles of chat_history
Roles == [i \in 1..Len(chat_history) |-> chat_history[i].role]

\* C29 (states): chat_history never holds two assistant messages in a
\* row, and is_processing is true only while the last message is a user
\* message still to be answered.
C29_Alternation ==
    /\ \A i \in 1..(Len(chat_history) - 1) :
          ~(Roles[i] = "assistant" /\ Roles[i + 1] = "assistant")
    /\ is_processing => /\ chat_history # <<>>
                        /\ Roles[Len(chat_history)] = "user"

\* C29 (steps): while is_processing is true no script run appends a user
\* message; the run appends exactly one assistant message and leaves
\* is_processing false, whether the agent returned or raised.
C29_ProcessingStep ==
    is_processing
    => /\ ~is_processing'
       /\ Len(chat_history') = Len(chat_history) + 1
       /\ SubSeq(chat_history', 1, Len(chat_history)) = chat_history
       /\ chat_history'[Len(chat_history')].role = "assistant"

\* C29: the is_processing flag serialises the messages of a session.
C29_ProcessingSerialisesMessages ==
    /\ []C29_Alternation
    /\ [][C29_ProcessingStep]_uiVars

\* Two messages answered, the second with the apology after the agent
\* raised
C29_Witness ==
    /\ Len(chat_history) = 4
    /\ Roles = <<"user", "assistant", "user", "assistant">>
    /\ chat_history[2].content = "response"
    /\ chat_history[4].content = "Sorry, I encountered an error"
    /\ ~is_processing

\* C27: the availability check reserves nothing.  Until the service has
\* accepted a createBooking the offer is what it was, so two invocations
\* for the same date and time can both pass the check on the same slot and
\* both go on to call createBooking.
C27_CheckReservesNothing ==
    (\A w \in Workers : workers[w].kind # "booked") => available = OfferedSlots

\* Both invocations asked for the same date and time, both passed the
\* check and both have their createBooking call for the same start under
\* way
C27_Witness ==
    /\ \A w \in Workers : workers[w].pc = "book_create"
    /\ workers[1].dt = workers[2].dt
    /\ workers[1].start = workers[2].start
    /\ workers[1].start.ok

=============================================================================
